---- MODULE Spec2Model ----
(***************************************************************************)
(* A model of dulwich/client.py: the report-status parser and the two      *)
(* conversations of GitClient, send_pack (receive-pack) and fetch_pack     *)
(* (upload-pack), run against a server that may send anything that is      *)
(* well framed.                                                            *)
(*                                                                         *)
(* Text is modelled by what the code does with it.  A status line is the   *)
(* sequence of its words (the pieces between single spaces) and a flag for *)
(* its line terminator; a negotiation line is the sequence its             *)
(* split(' ') yields; a side-band packet is the sequence of its bytes, the *)
(* channel first.  None is the empty tuple and Some(x) the tuple <<x>>.    *)
(***************************************************************************)
EXTENDS Naturals, Sequences, FiniteSets, TLC

(***************************************************************************)
(* Bounds of the model.                                                    *)
(***************************************************************************)
\* Ref lines in one advertisement.
MaxAdvLines == 2
\* Packets (flushes not counted) the server sends after its advertisement.
MaxReads == 3
\* Ids the graph walker yields in one fetch.
MaxHaves == 2
\* Items delivered to a report-status parser driven on its own.
MaxFed == 4

(***************************************************************************)
(* Values.                                                                 *)
(***************************************************************************)
None == <<>>
Some(x) == <<x>>
Range(s) == {s[i] : i \in DOMAIN s}
EmptyMap == [r \in {} |-> ""]
MapPut(m, k, v) == [x \in (DOMAIN m) \cup {k} |-> IF x = k THEN v ELSE m[x]]
MapGet(m, k, default) == IF k \in DOMAIN m THEN m[k] ELSE default
\* list.remove(x): drops the first occurrence.
ListRemove(s, x) ==
    LET i == CHOOSE i \in 1..Len(s) : s[i] = x /\ \A j \in 1..(i - 1) : s[j] # x
    IN  SubSeq(s, 1, i - 1) \o SubSeq(s, i + 1, Len(s))

ZERO_SHA == "0000"
Ids == {"a1", "b2"}
RefNames == {"refs/heads/x", "refs/heads/y"}
\* The capability sets a server advertises after the NUL of its first line.
AdvCapSets == {{"side-band-64k"}, {"report-status", "side-band-64k"}}
\* The ids the graph walker yields, in the order it yields them.
WalkId(n) == IF n % 2 = 1 THEN "a1" ELSE "b2"

COMMON_CAPABILITIES == <<"ofs-delta", "side-band-64k">>
FETCH_CAPABILITIES == <<"multi_ack">> \o COMMON_CAPABILITIES
SEND_CAPABILITIES == <<"report-status">> \o COMMON_CAPABILITIES

\* The outcome of a call: nothing yet, a returned value, a raised error.
NoResult == [kind |-> "none"]
Return(v) == [kind |-> "return", value |-> v]
Raise(e, a) == [kind |-> "raise", err |-> e, arg |-> a]

(***************************************************************************)
(* What the server sends.                                                  *)
(***************************************************************************)
Flush == [k |-> "flush"]
\* A status line "w1 w2 ...", with or without its terminating newline.
Line(words, nl) == [k |-> "line", text |-> words, nl |-> nl]
UnpackOk == Line(<<"unpack", "ok">>, TRUE)
UnpackFailed == Line(<<"unpack", "failed">>, TRUE)
OkLine(ref) == Line(<<"ok", ref>>, TRUE)
NgLine(ref) == Line(<<"ng", ref, "non-fast-forward">>, TRUE)
Garbage == Line(<<"garbage">>, FALSE)

\* One line of a ref advertisement: "<sha> <ref>[\0<caps>]\n"; caps is None
\* when the line holds no NUL.
AdvLine(sha, ref, caps) == [sha |-> sha, ref |-> ref, caps |-> caps]
ErrLine == AdvLine("ERR", "access denied", None)
AdvLines ==
    {AdvLine("a1", "refs/heads/x", None), AdvLine("a1", "refs/heads/y", None),
     AdvLine(ZERO_SHA, "refs/heads/y", None), ErrLine}
Adverts ==
    {<<>>} \cup
    {[s EXCEPT ![1].caps = c] :
        s \in UNION {[1..n -> AdvLines] : n \in 1..MaxAdvLines},
        c \in {None} \cup {Some(cs) : cs \in AdvCapSets}}

\* A negotiation line of upload-pack, as split(' ') of the line.
AckContinue(id) == [k |-> "neg", parts |-> <<"ACK", id, "continue">>]
Ack(id) == [k |-> "neg", parts |-> <<"ACK", id>>]
Nak == [k |-> "neg", parts |-> <<"NAK">>]
NegPkts == {AckContinue(i) : i \in Ids} \cup {Ack(i) : i \in Ids} \cup {Nak}

\* A side-band packet: the channel byte, then the payload.
SideBand(ch, payload) == [k |-> "sb", bytes |-> <<ch>> \o payload]
\* upload-pack: pack bytes on channel 1, progress on 2, a fatal error on 3.
FetchSbPkts ==
    {SideBand(1, <<"P">>), SideBand(1, <<"A", "C">>), SideBand(2, <<"m">>),
     SideBand(3, <<"e">>)}
\* receive-pack: channel 1 carries the pkt-lines of the status report.
SendSbPkts ==
    {SideBand(1, <<UnpackOk>>), SideBand(1, <<OkLine("refs/heads/x")>>),
     SideBand(1, <<NgLine("refs/heads/y")>>),
     SideBand(1, <<Flush>>), SideBand(2, <<"m">>), SideBand(3, <<"e">>)}
\* What proto.read() finds at the end: nothing, or bytes that should not be there.
EofData == {<<>>, <<"x">>}

(***************************************************************************)
(* dulwich.protocol (not in client.py).                                    *)
(***************************************************************************)
\* extract_capabilities: the text before the NUL, and the capabilities after
\* it (none when there is no NUL).
extract_capabilities(line) ==
    [ref |-> line.ref, caps |-> IF line.caps = None THEN {} ELSE line.caps[1]]

(***************************************************************************)
(* ReportStatusParser.                                                     *)
(***************************************************************************)
\* str.strip() of a status line: the words without the line terminator.
strip(pkt) == pkt.text

ReportStatusParser ==
    [done |-> FALSE, pack_status |-> None, ref_status_ok |-> TRUE,
     ref_statuses |-> <<>>]

\* The flag update of line 115-116: any line that does not start with "ok "
\* clears _ref_status_ok.
ref_status_ok_after(ok, ref_status) ==
    IF Len(ref_status) >= 2 /\ ref_status[1] = "ok" THEN ok ELSE FALSE

\* A handle_packet without the test of _done.
handle_packet_no_done(p, pkt) ==
    IF pkt = Flush
    THEN [st |-> [p EXCEPT !.done = TRUE], err |-> None]
    ELSE IF p.pack_status = None
    THEN [st |-> [p EXCEPT !.pack_status = Some(strip(pkt))], err |-> None]
    ELSE [st |-> [p EXCEPT !.ref_statuses = Append(@, strip(pkt)),
                           !.ref_status_ok =
                               ref_status_ok_after(@, strip(pkt))],
          err |-> None]

\* handle_packet: the parser after the packet, and the error raised if any.
handle_packet(p, pkt) ==
    IF p.done
    THEN [st |-> p, err |-> Some("GitProtocolError")]
    ELSE IF pkt = Flush
    THEN [st |-> [p EXCEPT !.done = TRUE], err |-> None]
    ELSE IF p.pack_status = None
    THEN [st |-> [p EXCEPT !.pack_status = Some(strip(pkt))], err |-> None]
    ELSE [st |-> [p EXCEPT !.ref_statuses = Append(@, strip(pkt)),
                           !.ref_status_ok =
                               ref_status_ok_after(@, strip(pkt))],
          err |-> None]

\* The loop of check (lines 82-93) over the recorded ref statuses.
RECURSIVE check_statuses(_, _, _)
check_statuses(statuses, ref_status, ok) ==
    IF statuses = <<>>
    THEN [ref_status |-> ref_status, ok |-> ok]
    ELSE LET status == Head(statuses)
         IN  IF Len(status) < 2
             THEN check_statuses(Tail(statuses), ref_status, ok)
             ELSE LET st == <<status[1]>>
                      ref == Tail(status)
                  IN  IF st = <<"ng">>
                      THEN IF Len(ref) >= 2
                           THEN check_statuses(Tail(statuses),
                                    MapPut(ref_status, <<ref[1]>>, Tail(ref)),
                                    ok)
                           ELSE check_statuses(Tail(statuses),
                                    MapPut(ref_status, ref, st), ok)
                      ELSE check_statuses(Tail(statuses),
                               MapPut(ref_status, ref, st), ok \cup {ref})

\* check: what it raises (NoResult when it raises nothing).
check(p) ==
    IF p.pack_status # None /\ p.pack_status # Some(<<"unpack", "ok">>)
    THEN Raise("SendPackError", p.pack_status[1])
    ELSE IF ~p.ref_status_ok
    THEN LET r == check_statuses(p.ref_statuses, EmptyMap, {})
         IN  Raise("UpdateRefsError",
                   [failed |-> {ref \in DOMAIN r.ref_status : ref \notin r.ok},
                    ref_status |-> r.ref_status])
    ELSE NoResult

\* PktLineParser.parse on a chunk holding whole pkt-lines: handle_packet on
\* each in turn, stopping at the first error.
RECURSIVE parse(_, _)
parse(p, chunk) ==
    IF chunk = <<>>
    THEN [st |-> p, err |-> None]
    ELSE LET h == handle_packet(p, Head(chunk))
         IN  IF h.err # None THEN h ELSE parse(h.st, Tail(chunk))

(***************************************************************************)
(* GitClient._read_refs.                                                   *)
(***************************************************************************)
RECURSIVE read_refs_loop(_, _, _)
read_refs_loop(pkts, refs, server_capabilities) ==
    IF pkts = <<>>
    THEN [err |-> None, refs |-> refs,
          server_capabilities |-> server_capabilities]
    ELSE LET pkt == Head(pkts)
         IN  IF pkt.sha = "ERR"
             THEN [err |-> Some(pkt.ref), refs |-> refs,
                   server_capabilities |-> server_capabilities]
             ELSE IF server_capabilities = None
             THEN LET e == extract_capabilities(pkt)
                  IN  read_refs_loop(Tail(pkts), MapPut(refs, e.ref, pkt.sha),
                                     Some(e.caps))
             ELSE read_refs_loop(Tail(pkts), MapPut(refs, pkt.ref, pkt.sha),
                                 server_capabilities)

\* A _read_refs that takes an ERR line for a ref line.
read_refs_no_err(pkts) ==
    read_refs_loop([i \in DOMAIN pkts |->
                       [pkts[i] EXCEPT !.sha = IF @ = "ERR" THEN ZERO_SHA ELSE @]],
                   EmptyMap, None)

read_refs(pkts) == read_refs_loop(pkts, EmptyMap, None)

(***************************************************************************)
(* State.                                                                  *)
(***************************************************************************)
VARIABLES
    \* GitClient.__init__
    thin_packs,
    \* the call in progress: which operation, its position, its arguments
    op, pc, determine_wants, progress,
    \* the transport: opened by _connect, the advertisement in flight, whether
    \* that advertisement holds an ERR line, the packets read after it, the
    \* packets written
    open, inq, server_err, rcvd, out,
    \* locals shared by send_pack and fetch_pack
    refs, server_capabilities, negotiated_capabilities,
    \* locals of send_pack
    new_refs, todo, sent_capabilities, want, have, report_status_parser,
    \* locals of fetch_pack
    wants,
    \* what the callbacks saw: calls of determine_wants and of
    \* generate_pack_contents, ids yielded by graph_walker.next, ids given to
    \* graph_walker.ack, arguments of pack_data and of progress
    dw_calls, gen_calls, walked, acked, pack_data, progress_log,
    \* how the call ended
    result,
    \* fetch(): whether fetch_pack runs inside it, and the calls of the commit
    \* callback add_pack returned
    fetch_called, commits,
    \* a ReportStatusParser driven on its own: the parser, the items delivered
    \* to handle_packet, what the last handle_packet raised, what check raised
    parser, fed, perr, checked

clientv == <<thin_packs>>
callv == <<op, determine_wants, progress>>
connv == <<open, inq, server_err>>
capv == <<refs, server_capabilities, negotiated_capabilities>>
loopv == <<new_refs, todo, sent_capabilities, want, have>>
fetchv == <<wants, walked, acked, pack_data>>
parserv == <<parser, fed, perr, checked>>
wrapv == <<fetch_called, commits>>
vars ==
    <<thin_packs, op, pc, determine_wants, progress, open, inq, server_err,
      rcvd, out, refs, server_capabilities, negotiated_capabilities, new_refs,
      todo, sent_capabilities, want, have, report_status_parser, wants,
      dw_calls, gen_calls, walked, acked, pack_data, progress_log, result,
      fetch_called, commits, parser, fed, perr, checked>>

\* What determine_wants may return in a push: any map from ref names to ids.
NewRefMaps == UNION {[d -> Ids \cup {ZERO_SHA}] : d \in SUBSET RefNames}
\* What determine_wants may return in a fetch.
WantLists == {<<>>, <<"a1">>, <<"b2", "a1">>}

NotFlush(x) == x # Flush
\* Packets other than flushes read since the advertisement.
NumRead == Len(SelectSeq(rcvd, NotFlush))

Init ==
    /\ thin_packs \in BOOLEAN
    /\ op = "none" /\ pc = "idle"
    /\ determine_wants = None /\ progress = FALSE
    /\ open = FALSE /\ inq = <<>> /\ server_err = FALSE
    /\ rcvd = <<>> /\ out = <<>>
    /\ refs = EmptyMap /\ server_capabilities = None
    /\ negotiated_capabilities = <<>>
    /\ new_refs = EmptyMap /\ todo = {} /\ sent_capabilities = FALSE
    /\ want = <<>> /\ have = {} /\ report_status_parser = None
    /\ wants = <<>>
    /\ dw_calls = 0 /\ gen_calls = 0
    /\ walked = <<>> /\ acked = <<>> /\ pack_data = <<>> /\ progress_log = <<>>
    /\ result = NoResult
    /\ fetch_called = FALSE /\ commits = 0
    /\ parser = ReportStatusParser /\ fed = <<>> /\ perr = None
    /\ checked = None

\* GitClient.__init__: the capability lists of the instance.
fetch_capabilities ==
    IF thin_packs THEN Append(FETCH_CAPABILITIES, "thin-pack")
    ELSE FETCH_CAPABILITIES
send_capabilities == SEND_CAPABILITIES

(***************************************************************************)
(* GitClient._read_side_band64k_data, for one packet: the callback of the  *)
(* packet's channel and the payload it is called with.  A channel missing  *)
(* from channel_callbacks is an error; a callback of None discards.        *)
(***************************************************************************)
\* A demultiplexer that cuts one byte too many off the packet.
read_side_band64k_short(pkt, channel_callbacks) ==
    LET channel == pkt.bytes[1]
    IN  IF channel \notin DOMAIN channel_callbacks
        THEN [invalid |-> TRUE, cb |-> "None", data |-> <<>>]
        ELSE [invalid |-> FALSE, cb |-> channel_callbacks[channel],
              data |-> Tail(Tail(pkt.bytes))]

read_side_band64k_data(pkt, channel_callbacks) ==
    LET channel == pkt.bytes[1]
    IN  IF channel \notin DOMAIN channel_callbacks
        THEN [invalid |-> TRUE, cb |-> "None", data |-> <<>>]
        ELSE [invalid |-> FALSE, cb |-> channel_callbacks[channel],
              data |-> Tail(pkt.bytes)]

\* The progress argument of the call: a callback, or None.
progress_callback == IF progress THEN "progress" ELSE "None"

(***************************************************************************)
(* GitClient.send_pack.                                                    *)
(***************************************************************************)
\* _connect('receive-pack', path): the transport is open and the server's
\* advertisement is on its way.
SendPackConnect ==
    /\ pc = "idle"
    /\ \E adv \in Adverts, dw \in NewRefMaps, pr \in BOOLEAN :
        /\ op' = "send_pack"
        /\ determine_wants' = dw
        /\ progress' = pr
        /\ inq' = adv
        /\ server_err' = (\E i \in DOMAIN adv : adv[i].sha = "ERR")
    /\ open' = TRUE
    /\ pc' = "read_refs"
    /\ UNCHANGED <<clientv, wrapv, rcvd, out, capv, loopv, report_status_parser,
                   fetchv, dw_calls, gen_calls, progress_log, result, parserv>>

\* Lines 182-184: the client's list, less report-status when the server did
\* not advertise it.
send_negotiated(caps) ==
    IF "report-status" \notin caps
    THEN ListRemove(send_capabilities, "report-status")
    ELSE send_capabilities

\* Lines 181-184.
SendPackReadRefs ==
    /\ pc = "read_refs" /\ op = "send_pack"
    /\ LET r == read_refs(inq)
       IN  /\ inq' = <<>>
           /\ IF r.err # None
              THEN /\ result' = Raise("GitProtocolError", r.err[1])
                   /\ pc' = "done"
                   /\ UNCHANGED capv
              ELSE /\ refs' = r.refs
                   /\ server_capabilities' = r.server_capabilities
                   /\ IF r.server_capabilities = None
                      THEN /\ negotiated_capabilities' = send_capabilities
                           /\ result' = Raise("TypeError", "NoneType is not iterable")
                           /\ pc' = "done"
                      ELSE /\ negotiated_capabilities' =
                                  send_negotiated(r.server_capabilities[1])
                           /\ result' = result
                           /\ pc' = "determine_wants"
    /\ UNCHANGED <<clientv, wrapv, callv, open, server_err, rcvd, out, loopv,
                   report_status_parser, fetchv, dw_calls, gen_calls,
                   progress_log, parserv>>

\* Lines 185-191.
SendPackDetermineWants ==
    /\ pc = "determine_wants" /\ op = "send_pack"
    /\ new_refs' = determine_wants
    /\ dw_calls' = dw_calls + 1
    /\ IF determine_wants = EmptyMap
       THEN /\ out' = Append(out, Flush)
            /\ result' = Return(EmptyMap)
            /\ pc' = "done"
            /\ UNCHANGED <<todo, sent_capabilities, want, have>>
       ELSE /\ want' = <<>>
            /\ have' = {refs[r] : r \in DOMAIN refs} \ {ZERO_SHA}
            /\ sent_capabilities' = FALSE
            /\ todo' = (DOMAIN determine_wants) \cup (DOMAIN refs)
            /\ pc' = "update_refs"
            /\ UNCHANGED <<out, result>>
    /\ UNCHANGED <<clientv, wrapv, callv, connv, rcvd, capv, report_status_parser,
                   fetchv, gen_calls, progress_log, parserv>>

\* An update line that ignores sent_capabilities.
update_line_always_caps(old_sha1, new_sha1, refname, sent) ==
    [k |-> "update", old |-> old_sha1, new |-> new_sha1, ref |-> refname,
     nul |-> TRUE, caps |-> negotiated_capabilities]

\* Lines 196-202: the update line of one ref.
update_line(old_sha1, new_sha1, refname, sent) ==
    IF sent
    THEN [k |-> "update", old |-> old_sha1, new |-> new_sha1,
          ref |-> refname, nul |-> FALSE, caps |-> <<>>]
    ELSE [k |-> "update", old |-> old_sha1, new |-> new_sha1,
          ref |-> refname, nul |-> TRUE, caps |-> negotiated_capabilities]

\* A loop that writes a line for every ref.
ref_changed_always(old_sha1, new_sha1) == TRUE

\* Line 195: whether the ref gets an update line.
ref_changed(old_sha1, new_sha1) == old_sha1 # new_sha1

\* Lines 192-205: one turn of the loop over set(new_refs.keys() +
\* old_refs.keys()), whose order is the set's.
SendPackUpdate ==
    /\ pc = "update_refs" /\ op = "send_pack"
    /\ \E refname \in todo :
        LET old_sha1 == MapGet(refs, refname, ZERO_SHA)
            new_sha1 == MapGet(new_refs, refname, ZERO_SHA)
        IN  /\ IF ref_changed(old_sha1, new_sha1)
               THEN /\ out' = Append(out, update_line(old_sha1, new_sha1,
                                             refname, sent_capabilities))
                    /\ sent_capabilities' = TRUE
               ELSE UNCHANGED <<out, sent_capabilities>>
            /\ want' = IF new_sha1 \notin have /\ new_sha1 # ZERO_SHA
                       THEN Append(want, new_sha1)
                       ELSE want
            /\ todo' = todo \ {refname}
    /\ UNCHANGED <<clientv, wrapv, callv, connv, rcvd, capv, new_refs, have, pc,
                   report_status_parser, fetchv, dw_calls, gen_calls,
                   progress_log, result, parserv>>

\* Lines 206-214: the flush that ends the update lines, then the pack.
SendPackFlush ==
    /\ pc = "update_refs" /\ op = "send_pack"
    /\ todo = {}
    /\ IF want = <<>>
       THEN /\ out' = Append(out, Flush)
            /\ result' = Return(new_refs)
            /\ pc' = "done"
            /\ UNCHANGED <<gen_calls, report_status_parser>>
       ELSE /\ out' = out \o <<Flush, [k |-> "pack", have |-> have,
                                       want |-> want]>>
            /\ gen_calls' = gen_calls + 1
            /\ report_status_parser' =
                   IF "report-status" \in Range(negotiated_capabilities)
                   THEN Some(ReportStatusParser)
                   ELSE None
            /\ pc' = "read_status"
            /\ UNCHANGED result
    /\ UNCHANGED <<clientv, wrapv, callv, connv, rcvd, capv, loopv, fetchv, dw_calls,
                   progress_log, parserv>>

\* Lines 225-226: the status check, when there is a parser.
send_pack_check(p) == IF p # None THEN check(p[1]) ELSE NoResult

\* Lines 216-219: the channels of the answer.
send_channel_callbacks ==
    IF "report-status" \in Range(negotiated_capabilities)
    THEN (2 :> progress_callback) @@ (1 :> "parse")
    ELSE (2 :> progress_callback)

\* Lines 215-226: one packet of the server's answer.
SendPackReadStatus ==
    /\ pc = "read_status" /\ op = "send_pack"
    /\ \E pkt \in SendSbPkts \cup {Flush} :
        /\ pkt # Flush => NumRead < MaxReads
        /\ rcvd' = Append(rcvd, pkt)
        /\ IF pkt = Flush
           THEN /\ result' = send_pack_check(report_status_parser)
                /\ pc' = IF result'.kind = "raise" THEN "done" ELSE "read_eof"
                /\ UNCHANGED <<report_status_parser, progress_log>>
           ELSE IF "side-band-64k" \in Range(negotiated_capabilities)
           THEN LET d == read_side_band64k_data(pkt, send_channel_callbacks)
                IN  IF d.invalid
                    THEN /\ result' = Raise("AssertionError",
                                            "Invalid sideband channel")
                         /\ pc' = "done"
                         /\ UNCHANGED <<report_status_parser, progress_log>>
                    ELSE IF d.cb = "parse"
                    THEN LET h == parse(report_status_parser[1], d.data)
                         IN  /\ report_status_parser' = Some(h.st)
                             /\ IF h.err # None
                                THEN /\ result' = Raise(h.err[1],
                                            "received more data after status report")
                                     /\ pc' = "done"
                                ELSE UNCHANGED <<result, pc>>
                             /\ UNCHANGED progress_log
                    ELSE /\ progress_log' =
                                IF d.cb = "progress"
                                THEN Append(progress_log, d.data)
                                ELSE progress_log
                         /\ UNCHANGED <<report_status_parser, result, pc>>
           ELSE \* line 222: the literal 'report-status' is always true
                IF report_status_parser = None
                THEN /\ result' = Raise("AttributeError",
                                        "NoneType has no handle_packet")
                     /\ pc' = "done"
                     /\ UNCHANGED <<report_status_parser, progress_log>>
                ELSE LET h == parse(report_status_parser[1], Tail(pkt.bytes))
                     IN  /\ report_status_parser' = Some(h.st)
                         /\ IF h.err # None
                            THEN /\ result' = Raise(h.err[1],
                                        "received more data after status report")
                                 /\ pc' = "done"
                            ELSE UNCHANGED <<result, pc>>
                         /\ UNCHANGED progress_log
    /\ UNCHANGED <<clientv, wrapv, callv, connv, out, capv, loopv, fetchv, dw_calls,
                   gen_calls, parserv>>

\* Lines 227-231: wait for EOF.
SendPackReadEof ==
    /\ pc = "read_eof" /\ op = "send_pack"
    /\ \E data \in EofData :
        /\ rcvd' = Append(rcvd, [k |-> "eof", bytes |-> data])
        /\ result' = IF data # <<>> THEN Raise("SendPackError", data)
                     ELSE Return(new_refs)
    /\ pc' = "done"
    /\ UNCHANGED <<clientv, wrapv, callv, connv, out, capv, loopv,
                   report_status_parser, fetchv, dw_calls, gen_calls,
                   progress_log, parserv>>

(***************************************************************************)
(* GitClient.fetch_pack.                                                   *)
(***************************************************************************)
\* _connect('upload-pack', path).
FetchPackConnect ==
    /\ pc = "idle" \/ pc = "fetch"
    /\ \E adv \in Adverts, dw \in WantLists, pr \in BOOLEAN :
        /\ op' = "fetch_pack"
        /\ determine_wants' = dw
        /\ progress' = pr
        /\ inq' = adv
        /\ server_err' = (\E i \in DOMAIN adv : adv[i].sha = "ERR")
    /\ open' = TRUE
    /\ pc' = "read_refs"
    /\ UNCHANGED <<clientv, wrapv, rcvd, out, capv, loopv, report_status_parser,
                   fetchv, dw_calls, gen_calls, progress_log, result, parserv>>

\* Line 263: the capabilities fetch_pack sends.
fetch_negotiated(caps) == fetch_capabilities

\* Lines 262-263.
FetchPackReadRefs ==
    /\ pc = "read_refs" /\ op = "fetch_pack"
    /\ LET r == read_refs(inq)
       IN  /\ inq' = <<>>
           /\ IF r.err # None
              THEN /\ result' = Raise("GitProtocolError", r.err[1])
                   /\ pc' = "done"
                   /\ UNCHANGED capv
              ELSE /\ refs' = r.refs
                   /\ server_capabilities' = r.server_capabilities
                   /\ negotiated_capabilities' =
                          fetch_negotiated(r.server_capabilities)
                   /\ result' = result
                   /\ pc' = "determine_wants"
    /\ UNCHANGED <<clientv, wrapv, callv, open, server_err, rcvd, out, loopv,
                   report_status_parser, fetchv, dw_calls, gen_calls,
                   progress_log, parserv>>

\* Lines 269-273: the want lines, capabilities on the first, and the flush.
RECURSIVE want_lines(_)
want_lines(ids) ==
    IF ids = <<>> THEN <<>>
    ELSE <<[k |-> "want", id |-> Head(ids), caps |-> None]>>
         \o want_lines(Tail(ids))
\* Want lines that are not followed by a flush.
want_request_no_flush(ids, caps) ==
    <<[k |-> "want", id |-> Head(ids), caps |-> Some(caps)]>>
    \o want_lines(Tail(ids))

want_request(ids, caps) ==
    <<[k |-> "want", id |-> Head(ids), caps |-> Some(caps)]>>
    \o want_lines(Tail(ids)) \o <<Flush>>

\* A fetch that returns without its flush.
no_wants_request_missing == <<>>

\* Lines 266-267: what a fetch with nothing to want writes.
no_wants_request == <<Flush>>

\* Lines 264-273.
FetchPackDetermineWants ==
    /\ pc = "determine_wants" /\ op = "fetch_pack"
    /\ wants' = determine_wants
    /\ dw_calls' = dw_calls + 1
    /\ IF determine_wants = <<>>
       THEN /\ out' = out \o no_wants_request
            /\ result' = Return(refs)
            /\ pc' = "done"
       ELSE /\ out' = out \o want_request(determine_wants,
                                          negotiated_capabilities)
            /\ pc' = "walk"
            /\ UNCHANGED result
    /\ UNCHANGED <<clientv, wrapv, callv, connv, rcvd, capv, loopv,
                   report_status_parser, walked, acked, pack_data, gen_calls,
                   progress_log, parserv>>

\* Lines 274-277 and 283-284: graph_walker.next(); an id is sent as a have
\* line and can_read() decides whether a line is read before the next one,
\* the end of the walk is followed by done.
FetchPackWalk ==
    /\ pc = "walk" /\ op = "fetch_pack"
    /\ \E have_ \in {None, Some(WalkId(Len(walked) + 1))}, can_read \in BOOLEAN :
        /\ have_ # None => Len(walked) < MaxHaves
        /\ IF have_ # None
           THEN /\ walked' = Append(walked, have_[1])
                /\ out' = Append(out, [k |-> "have", id |-> have_[1]])
                /\ pc' = IF can_read THEN "read_ack" ELSE "walk"
           ELSE /\ out' = Append(out, [k |-> "done"])
                /\ pc' = "read_done"
                /\ UNCHANGED walked
    /\ UNCHANGED <<clientv, wrapv, callv, connv, rcvd, capv, loopv,
                   report_status_parser, wants, acked, pack_data, dw_calls,
                   gen_calls, progress_log, result, parserv>>

\* Lines 278-282: what the have loop does with the line it read.
read_ack(pkt) ==
    /\ rcvd' = Append(rcvd, pkt)
    /\ IF pkt = Flush
       THEN /\ result' = Raise("AttributeError", "NoneType has no rstrip")
            /\ pc' = "done"
            /\ UNCHANGED acked
       ELSE IF pkt.parts[1] = "ACK"
       THEN /\ acked' = Append(acked, pkt.parts[2])
            /\ IF Len(pkt.parts) < 3
               THEN /\ result' = Raise("IndexError", "list index out of range")
                    /\ pc' = "done"
               ELSE IF pkt.parts[3] # "continue"
               THEN /\ result' = Raise("AssertionError", "")
                    /\ pc' = "done"
               ELSE /\ pc' = "walk"
                    /\ UNCHANGED result
       ELSE /\ pc' = "walk"
            /\ UNCHANGED <<acked, result>>
    /\ UNCHANGED <<clientv, wrapv, callv, open, server_err, out, capv, loopv,
                   report_status_parser, wants, walked, pack_data, dw_calls,
                   gen_calls, progress_log, parserv>>

\* Line 278: the line read inside the have loop, from any server.
FetchPackReadAck ==
    /\ pc = "read_ack" /\ op = "fetch_pack"
    /\ \E pkt \in NegPkts \cup {Flush} :
        /\ pkt # Flush => NumRead < MaxReads
        /\ read_ack(pkt)
    /\ UNCHANGED inq

\* A loop after done that stops at the first line, whatever it says.
last_line_always(parts) == TRUE

\* Lines 290-291: whether a line read after done ends the negotiation.
last_line(parts) == Len(parts) < 3 \/ parts[3] # "continue"

\* Lines 285-292: what the loop after done does with the line it read.
read_done(pkt) ==
    /\ rcvd' = Append(rcvd, pkt)
    /\ IF pkt = Flush
       THEN /\ pc' = "read_pack"
            /\ UNCHANGED acked
       ELSE /\ acked' = IF pkt.parts[1] = "ACK"
                        THEN Append(acked, pkt.parts[2])
                        ELSE acked
            /\ pc' = IF last_line(pkt.parts) THEN "read_pack"
                     ELSE "read_done"
    /\ UNCHANGED <<clientv, wrapv, callv, open, server_err, out, capv, loopv,
                   report_status_parser, wants, walked, pack_data, dw_calls,
                   gen_calls, progress_log, result, parserv>>

\* Lines 285 and 292: a line read after done, from any server.
FetchPackReadDone ==
    /\ pc = "read_done" /\ op = "fetch_pack"
    /\ \E pkt \in NegPkts \cup {Flush} :
        /\ pkt # Flush => NumRead < MaxReads
        /\ read_done(pkt)
    /\ UNCHANGED inq

\* Line 294: the channels of the pack.
fetch_channel_callbacks == (1 :> "pack_data") @@ (2 :> progress_callback)

\* Lines 293-294 and 299-301: one packet of the pack.
FetchPackReadPack ==
    /\ pc = "read_pack" /\ op = "fetch_pack"
    /\ IF "side-band-64k" \in Range(negotiated_capabilities)
       THEN \E pkt \in FetchSbPkts \cup {Flush} :
               /\ pkt # Flush => NumRead < MaxReads
               /\ rcvd' = Append(rcvd, pkt)
               /\ IF pkt = Flush
                  THEN /\ pc' = "read_eof"
                       /\ UNCHANGED <<pack_data, progress_log, result>>
                  ELSE LET d == read_side_band64k_data(pkt,
                                    fetch_channel_callbacks)
                       IN  IF d.invalid
                           THEN /\ result' = Raise("AssertionError",
                                                   "Invalid sideband channel")
                                /\ pc' = "done"
                                /\ UNCHANGED <<pack_data, progress_log>>
                           ELSE /\ pack_data' =
                                       IF d.cb = "pack_data"
                                       THEN Append(pack_data, d.data)
                                       ELSE pack_data
                                /\ progress_log' =
                                       IF d.cb = "progress"
                                       THEN Append(progress_log, d.data)
                                       ELSE progress_log
                                /\ UNCHANGED <<result, pc>>
       ELSE \* line 301: GitClient has no read
            /\ result' = Raise("AttributeError", "GitClient has no read")
            /\ pc' = "done"
            /\ UNCHANGED <<rcvd, pack_data, progress_log>>
    /\ UNCHANGED <<clientv, wrapv, callv, connv, out, capv, loopv,
                   report_status_parser, wants, walked, acked, dw_calls,
                   gen_calls, parserv>>

\* Lines 295-298 and 302: wait for EOF.
FetchPackReadEof ==
    /\ pc = "read_eof" /\ op = "fetch_pack"
    /\ \E data \in EofData :
        /\ rcvd' = Append(rcvd, [k |-> "eof", bytes |-> data])
        /\ result' = IF data # <<>> THEN Raise("Exception", data)
                     ELSE Return(refs)
    /\ pc' = "done"
    /\ UNCHANGED <<clientv, wrapv, callv, connv, out, capv, loopv,
                   report_status_parser, fetchv, dw_calls, gen_calls,
                   progress_log, parserv>>

(***************************************************************************)
(* GitClient.fetch: fetch_pack between add_pack and commit.                *)
(***************************************************************************)
\* A finally clause that runs only when fetch_pack returned.
commit_on_return(r) == r.kind = "return"

\* Lines 246-250: the finally clause runs commit however fetch_pack ended.
commit_runs(r) == TRUE

\* Lines 243-248: add_pack, then the call of fetch_pack inside try.
Fetch ==
    /\ pc = "idle"
    /\ fetch_called' = TRUE
    /\ pc' = "fetch"
    /\ UNCHANGED <<clientv, callv, connv, rcvd, out, capv, loopv,
                   report_status_parser, fetchv, dw_calls, gen_calls,
                   progress_log, result, commits, parserv>>

\* Lines 249-250: commit(), then fetch_pack's return value or error goes on
\* to the caller.
FetchFinally ==
    /\ pc = "done" /\ fetch_called
    /\ commits' = IF commit_runs(result) THEN commits + 1 ELSE commits
    /\ pc' = "fetch_done"
    /\ UNCHANGED <<clientv, callv, connv, rcvd, out, capv, loopv,
                   report_status_parser, fetchv, dw_calls, gen_calls,
                   progress_log, result, fetch_called, parserv>>

FetchPack ==
    \/ FetchPackConnect
    \/ FetchPackReadRefs
    \/ FetchPackDetermineWants
    \/ FetchPackWalk
    \/ FetchPackReadAck
    \/ FetchPackReadDone
    \/ FetchPackReadPack
    \/ FetchPackReadEof

SendPack ==
    \/ SendPackConnect
    \/ SendPackReadRefs
    \/ SendPackDetermineWants
    \/ SendPackUpdate
    \/ SendPackFlush
    \/ SendPackReadStatus
    \/ SendPackReadEof

Next == SendPack \/ FetchPack \/ Fetch \/ FetchFinally
Spec == Init /\ [][Next]_vars

(***************************************************************************)
(* fetch_pack against a server that keeps to the negotiation: it answers   *)
(* haves it has seen with `ACK <id> continue`, and done with one `ACK <id>`*)
(* or NAK.  Its lines wait in inq until the driver reads them; can_read    *)
(* may say anything.  The conversation is followed up to the start of the  *)
(* pack.                                                                   *)
(***************************************************************************)
IsNeg(x) == x # Flush /\ x.k = "neg"
\* The negotiation lines the server has sent: those read and those waiting.
ServerSent == SelectSeq(rcvd, IsNeg) \o inq
\* A line without continue: the server's last word in the negotiation.
IsFinal(x) == Len(x.parts) < 3
DoneWritten == \E i \in DOMAIN out : out[i] = [k |-> "done"]

ServerAck ==
    /\ op = "fetch_pack" /\ pc \in {"walk", "read_ack", "read_done"}
    /\ SelectSeq(ServerSent, IsFinal) = <<>>
    /\ Len(ServerSent) < Len(walked)
    /\ \E i \in DOMAIN walked : inq' = Append(inq, AckContinue(walked[i]))
    /\ UNCHANGED <<clientv, wrapv, callv, open, server_err, rcvd, out, capv,
                   loopv, report_status_parser, fetchv, dw_calls, gen_calls,
                   progress_log, result, pc, parserv>>

ServerFinal ==
    /\ op = "fetch_pack" /\ pc = "read_done"
    /\ DoneWritten
    /\ SelectSeq(ServerSent, IsFinal) = <<>>
    /\ \E pkt \in {Nak} \cup {Ack(id) : id \in Ids} : inq' = Append(inq, pkt)
    /\ UNCHANGED <<clientv, wrapv, callv, open, server_err, rcvd, out, capv,
                   loopv, report_status_parser, fetchv, dw_calls, gen_calls,
                   progress_log, result, pc, parserv>>

\* Line 278, reading what the server sent; the read waits for a line.
AckReadAck ==
    /\ pc = "read_ack" /\ op = "fetch_pack"
    /\ inq # <<>>
    /\ read_ack(Head(inq))
    /\ inq' = Tail(inq)

\* Lines 285 and 292, reading what the server sent.
AckReadDone ==
    /\ pc = "read_done" /\ op = "fetch_pack"
    /\ inq # <<>>
    /\ read_done(Head(inq))
    /\ inq' = Tail(inq)

AckNext ==
    \/ FetchPackConnect
    \/ FetchPackReadRefs
    \/ FetchPackDetermineWants
    \/ FetchPackWalk
    \/ AckReadAck
    \/ AckReadDone
    \/ ServerAck
    \/ ServerFinal
AckSpec == Init /\ [][AckNext]_vars

(***************************************************************************)
(* A ReportStatusParser driven on its own: any item may be delivered to    *)
(* handle_packet, and check may be called at any time.                     *)
(***************************************************************************)
ParserPkts ==
    {UnpackOk, UnpackFailed, OkLine("refs/heads/x"), OkLine("refs/heads/y"),
     NgLine("refs/heads/y"), Garbage, Flush}

driverv ==
    <<thin_packs, op, pc, determine_wants, progress, open, inq, server_err,
      rcvd, out, refs, server_capabilities, negotiated_capabilities, new_refs,
      todo, sent_capabilities, want, have, report_status_parser, wants,
      dw_calls, gen_calls, walked, acked, pack_data, progress_log, result,
      fetch_called, commits>>

HandlePacket ==
    /\ Len(fed) < MaxFed
    /\ \E pkt \in ParserPkts :
        LET h == handle_packet(parser, pkt)
        IN  /\ parser' = h.st
            /\ perr' = h.err
            /\ fed' = Append(fed, pkt)
    /\ checked' = None
    /\ UNCHANGED driverv

Check ==
    /\ checked = None
    /\ checked' = Some(check(parser))
    /\ UNCHANGED <<parser, fed, perr>>
    /\ UNCHANGED driverv

ParserNext == HandlePacket \/ Check
ParserSpec == Init /\ [][ParserNext]_vars

(***************************************************************************)
(* Properties.                                                             *)
(***************************************************************************)
\* What the server advertised, as a set (nothing when it sent no ref line).
Advertised == IF server_capabilities = None THEN {} ELSE server_capabilities[1]
IsUpdate(x) == x.k = "update"
\* fetch_pack or send_pack has ended (and fetch(), if it made the call, may
\* have ended too).
Ended == pc \in {"done", "fetch_done"}
\* The update lines written so far, in order.
Updates == SelectSeq(out, IsUpdate)
\* The update lines written for one ref.
UpdatesOf(r) == {i \in DOMAIN Updates : Updates[i].ref = r}

\* C1: a push whose determine_wants returns an empty mapping, against any ref
\* advertisement (the empty one included), writes exactly one flush, reads
\* nothing more, does not call generate_pack_contents and returns {}.
C1_NoOpPush ==
    (op = "send_pack" /\ pc = "done" /\ determine_wants = EmptyMap
        /\ ~server_err)
    => /\ result = Return(EmptyMap)
       /\ out = <<Flush>>
       /\ rcvd = <<>>
       /\ gen_calls = 0

\* C2: a fetch whose determine_wants returns an empty list, against any ref
\* advertisement (the empty one included), writes exactly one flush and no
\* want, have or done line, never consults the graph walker or the pack sink,
\* reads nothing more, and returns the advertised refs.
C2_NoOpFetch ==
    (op = "fetch_pack" /\ determine_wants = <<>> /\ ~server_err)
    => /\ walked = <<>> /\ acked = <<>> /\ pack_data = <<>>
       /\ rcvd = <<>>
       /\ pc \in {"read_refs", "determine_wants", "done", "fetch_done"}
       /\ out = IF Ended THEN <<Flush>> ELSE <<>>
       /\ Ended => result = Return(refs)

\* C2's case: a no-op fetch against the empty advertisement has returned.
C2_Witness ==
    /\ op = "fetch_pack" /\ pc = "done" /\ determine_wants = <<>>
    /\ server_capabilities = None /\ refs = EmptyMap
    /\ result = Return(EmptyMap) /\ out = <<Flush>>

\* C3: the capability list sent on the first want line of a fetch, and after
\* the NUL of the first update line of a push, is the client's requested set
\* intersected with the advertised set.
C3_Negotiated ==
    \A i \in DOMAIN out :
        /\ (out[i].k = "want" /\ out[i].caps # None)
           => Range(out[i].caps[1]) = Range(fetch_capabilities) \cap Advertised
        /\ (out[i].k = "update" /\ out[i].nul)
           => Range(out[i].caps) = Range(send_capabilities) \cap Advertised

\* C4: in a push the first update line, and only the first, holds a NUL
\* followed by the negotiated capability list; later update lines hold neither.
C4_CapsOnFirstUpdate ==
    op = "send_pack" =>
        \A i \in DOMAIN Updates :
            IF i = 1
            THEN Updates[i].nul /\ Updates[i].caps = negotiated_capabilities
            ELSE ~Updates[i].nul /\ Updates[i].caps = <<>>

\* C4's case: a push has written two update lines.
C4_Witness ==
    /\ op = "send_pack" /\ pc = "done" /\ result.kind = "return"
    /\ Len(Updates) = 2
    /\ Updates[1].nul /\ ~Updates[2].nul

\* The update line the claim C5 expects for a ref, if any.
OldOf(r) == MapGet(refs, r, ZERO_SHA)
UpdateStreamIs(new) ==
    \A r \in (DOMAIN refs) \cup (DOMAIN new) :
        LET new_id == MapGet(new, r, ZERO_SHA)
        IN  IF OldOf(r) # new_id
            THEN /\ Cardinality(UpdatesOf(r)) = 1
                 /\ \A i \in UpdatesOf(r) :
                        Updates[i].old = OldOf(r) /\ Updates[i].new = new_id
            ELSE UpdatesOf(r) = {}

\* C5 as stated: after a push that returned, every ref of the advertised refs
\* and of the mapping determine_wants returned has exactly one update line if
\* its old and new ids differ and none if they are equal.
C5_Original ==
    (op = "send_pack" /\ pc = "done" /\ result.kind = "return")
    => UpdateStreamIs(determine_wants)

\* C5, amended: the same, for a push whose determine_wants returned a
\* non-empty mapping, once the loop over the refs has ended; and at any time
\* no update line has old equal to new and no ref has two update lines.
C5_UpdateStream ==
    op = "send_pack" =>
        /\ \A i \in DOMAIN Updates :
            /\ Updates[i].old # Updates[i].new
            /\ \A j \in DOMAIN Updates : Updates[j].ref = Updates[i].ref => j = i
        /\ (dw_calls > 0 /\ new_refs # EmptyMap
                /\ pc \in {"read_status", "read_eof", "done"})
           => UpdateStreamIs(new_refs)

\* C5's case: a push returned with one ref updated and one left as it was.
C5_Witness ==
    /\ op = "send_pack" /\ pc = "done" /\ result = Return(new_refs)
    /\ new_refs # EmptyMap
    /\ \E r \in DOMAIN refs : r \in DOMAIN new_refs /\ refs[r] = new_refs[r]
    /\ \E r \in DOMAIN new_refs : r \notin DOMAIN refs
    /\ Len(Updates) = 1

\* The recorded ref lines of the form "ng <ref> <reason>" and "ok <ref>".
IsNgLine(st) == Len(st) >= 3 /\ st[1] = "ng"
IsOkLine(st) == Len(st) >= 2 /\ st[1] = "ok"
NgLines == {i \in DOMAIN parser.ref_statuses : IsNgLine(parser.ref_statuses[i])}
NgRefs == {<<parser.ref_statuses[i][2]>> : i \in NgLines}
OkRefs ==
    {Tail(parser.ref_statuses[i]) :
        i \in {j \in DOMAIN parser.ref_statuses :
                  IsOkLine(parser.ref_statuses[j])}}

\* C6: check raises the pack-rejected error with the stored pack status when
\* that status is present and is not "unpack ok"; otherwise, when some ref
\* line is "ng <ref> <reason>", the ref-updates-rejected error naming exactly
\* the refs reported ng, each with its reason, and no ref reported ok;
\* otherwise nothing.
C6_CheckOutcome ==
    checked # None =>
        IF parser.pack_status # None
           /\ parser.pack_status # Some(<<"unpack", "ok">>)
        THEN checked[1] = Raise("SendPackError", parser.pack_status[1])
        ELSE IF NgLines # {}
        THEN /\ checked[1].kind = "raise"
             /\ checked[1].err = "UpdateRefsError"
             /\ checked[1].arg.failed = NgRefs
             /\ checked[1].arg.failed \cap OkRefs = {}
             /\ \A i \in NgLines :
                    LET st == parser.ref_statuses[i]
                    IN  checked[1].arg.ref_status[<<st[2]>>] = Tail(Tail(st))
        ELSE checked[1] = NoResult

\* The items of fed that reached the parser before it was done: those up to
\* the first flush.
FirstFlush ==
    IF \E i \in DOMAIN fed : fed[i] = Flush
    THEN CHOOSE i \in DOMAIN fed :
             fed[i] = Flush /\ \A j \in 1..(i - 1) : fed[j] # Flush
    ELSE Len(fed) + 1
Payloads == SubSeq(fed, 1, FirstFlush - 1)
\* AWAIT_PACK_STATUS, AWAIT_REF_STATUS, DONE as 0, 1, 2.
ParserRank(p) == IF p.done THEN 2 ELSE IF p.pack_status # None THEN 1 ELSE 0

\* C7: the parser only moves forward; the first payload is stored as the
\* pack status and never overwritten, every later payload before the flush is
\* recorded as a ref status in arrival order, the flush makes the parser done,
\* and a payload delivered after that raises a protocol error and changes
\* nothing recorded.
C7_ParserForward ==
    /\ [](/\ parser.done = (FirstFlush <= Len(fed))
          /\ parser.pack_status =
                 IF Payloads = <<>> THEN None ELSE Some(Payloads[1].text)
          /\ parser.ref_statuses =
                 [i \in 1..(Len(Payloads) - 1) |-> Payloads[i + 1].text])
    /\ [][/\ ParserRank(parser') >= ParserRank(parser)
          /\ parser.pack_status # None
             => parser'.pack_status = parser.pack_status
          /\ (parser.done /\ fed' # fed)
             => (parser' = parser /\ perr' = Some("GitProtocolError"))
          /\ (~parser.done /\ fed' # fed) => perr' = None]_vars

\* C7's case: a parser that took a pack status and a ref status, was flushed,
\* and then refused a payload.
C7_Witness ==
    /\ fed = <<UnpackOk, Garbage, Flush, OkLine("refs/heads/x")>>
    /\ parser.done
    /\ perr = Some("GitProtocolError")
    /\ parser.pack_status = Some(<<"unpack", "ok">>)
    /\ parser.ref_statuses = <<<<"garbage">>>>

\* C8: when the first line of the advertisement has ERR as its identifier the
\* call fails with the server-refused error carrying the rest of that line,
\* before determine_wants is called and before anything is written.
C8_ServerRefusal ==
    [][(pc = "read_refs" /\ inq # <<>> /\ inq[1].sha = "ERR")
       => /\ pc' = "done"
          /\ result' = Raise("GitProtocolError", inq[1].ref)
          /\ out' = <<>>
          /\ dw_calls' = 0]_vars

\* C8's case: a push refused by the server has ended.
C8_Witness ==
    /\ op = "send_pack" /\ pc = "done" /\ server_err
    /\ result = Raise("GitProtocolError", "access denied")
    /\ out = <<>> /\ dw_calls = 0

\* The payloads of the channel-1 packets read, channel byte removed, in order.
RECURSIVE Channel1(_)
Channel1(pkts) ==
    IF pkts = <<>> THEN <<>>
    ELSE IF Head(pkts).k = "sb" /\ Head(pkts).bytes[1] = 1
    THEN <<SubSeq(Head(pkts).bytes, 2, Len(Head(pkts).bytes))>>
         \o Channel1(Tail(pkts))
    ELSE Channel1(Tail(pkts))
RECURSIVE Concat(_)
Concat(ss) == IF ss = <<>> THEN <<>> ELSE Head(ss) \o Concat(Tail(ss))
RECURSIVE Channel1Length(_)
Channel1Length(pkts) ==
    IF pkts = <<>> THEN 0
    ELSE (IF Head(pkts).k = "sb" /\ Head(pkts).bytes[1] = 1
          THEN Len(Head(pkts).bytes) - 1 ELSE 0)
         + Channel1Length(Tail(pkts))

\* C9: after a fetch with side-band negotiated has returned, the pack sink
\* was called with exactly the channel-1 payloads, channel byte removed, in
\* arrival order; the bytes it got are their concatenation and as many as the
\* channel-1 payload lengths add up to.
C9_PackSink ==
    (op = "fetch_pack" /\ Ended /\ result.kind = "return"
        /\ wants # <<>>
        /\ "side-band-64k" \in Range(negotiated_capabilities))
    => /\ pack_data = Channel1(rcvd)
       /\ Concat(pack_data) = Concat(Channel1(rcvd))
       /\ Len(Concat(pack_data)) = Channel1Length(rcvd)

\* C9's case: a fetch returned after two channel-1 packets with a progress
\* packet between them.
C9_Witness ==
    /\ op = "fetch_pack" /\ pc = "done" /\ result = Return(refs)
    /\ "side-band-64k" \in Advertised
    /\ pack_data = <<<<"A", "C">>, <<"P">>>>
    /\ \E i \in DOMAIN rcvd : rcvd[i] = SideBand(2, <<"m">>)

\* C10: when fetch_pack or send_pack has ended, by return or by error, the
\* transport _connect opened has been closed.
C10_TransportReleased == Ended => ~open

\* The error classes of dulwich.errors that are protocol errors:
\* GitProtocolError and its subclasses SendPackError and UpdateRefsError.
ProtocolErrors == {"GitProtocolError", "SendPackError", "UpdateRefsError"}

IsSb(x) == x # Flush /\ x.k = "sb"
IsEof(x) == x # Flush /\ x.k = "eof"
OnChannel(ch, x) == IsSb(x) /\ x.bytes[1] = ch
\* Whether a packet on that channel was read.
ReadOn(ch) == \E i \in DOMAIN rcvd : OnChannel(ch, rcvd[i])
\* What proto.read() returned at the end, if it was called.
EofRead == SelectSeq(rcvd, IsEof)

\* C11: a push that streamed a pack to a server that did not advertise
\* report-status consults no status parser and, whatever payloads came before
\* the flush (the fatal channel 3 apart), returns the new ref map once the
\* stream has ended with no trailing byte.
C11_PushDegradation ==
    (op = "send_pack" /\ pc = "done" /\ gen_calls = 1
        /\ server_capabilities # None /\ "report-status" \notin Advertised
        /\ ~ReadOn(3)
        /\ \A i \in DOMAIN EofRead : EofRead[i].bytes = <<>>)
    => /\ report_status_parser = None
       /\ result = Return(new_refs)

\* The bytes read once the negotiation was over.
RECURSIVE RawLength(_)
RawLength(pkts) ==
    IF pkts = <<>> THEN 0
    ELSE (IF IsSb(Head(pkts)) \/ IsEof(Head(pkts))
          THEN Len(Head(pkts).bytes) ELSE 0)
         + RawLength(Tail(pkts))
PackPhase == \E i \in DOMAIN rcvd : IsSb(rcvd[i]) \/ IsEof(rcvd[i])

\* C12: a fetch from a server that did not advertise side-band-64k does not
\* demultiplex: once the negotiation is over every byte read goes to the pack
\* sink unchanged and the call returns the advertised refs.
C12_FetchDegradation ==
    (op = "fetch_pack" /\ pc \in {"done", "fetch_done"} /\ wants # <<>>
        /\ "side-band-64k" \notin Advertised /\ PackPhase)
    => /\ result = Return(refs)
       /\ Len(Concat(pack_data)) = RawLength(rcvd)

\* A ref status without a space.
Malformed(st) == Len(st) = 1

\* C13: after "unpack ok", when every ref line is an `ok <ref>` line or a
\* malformed one, check raises nothing; and whatever check raises, no
\* malformed line is among the refs it reports.
C13_MalformedSkipped ==
    checked # None =>
        /\ (/\ parser.pack_status = Some(<<"unpack", "ok">>)
            /\ \A i \in DOMAIN parser.ref_statuses :
                   \/ IsOkLine(parser.ref_statuses[i])
                   \/ Malformed(parser.ref_statuses[i]))
           => checked[1] = NoResult
        /\ (checked[1].kind = "raise" /\ checked[1].err = "UpdateRefsError")
           => \A i \in DOMAIN parser.ref_statuses :
                  Malformed(parser.ref_statuses[i])
                  => parser.ref_statuses[i] \notin DOMAIN checked[1].arg.ref_status

\* C14: once the driver has read to end-of-stream, it returns the ref map if
\* nothing came and fails with a protocol error if any byte came; a call that
\* consumed a pack or a status report returns only after that read.
C14_TrailingData ==
    pc \in {"done", "fetch_done"} =>
        /\ \A i \in DOMAIN EofRead :
              IF EofRead[i].bytes = <<>>
              THEN result = Return(IF op = "send_pack" THEN new_refs ELSE refs)
              ELSE result.kind = "raise" /\ result.err \in ProtocolErrors
        /\ (result.kind = "return" /\ (gen_calls = 1 \/ wants # <<>>))
           => EofRead # <<>>

\* C15: a push that changes refs but has no object to send (deletions only)
\* calls generate_pack_contents never, writes no pack, and still reads the
\* server's answer: with report-status negotiated it returns the ref map only
\* after a status parser was fed up to the flush and checked.
C15_DeletionsOnly ==
    (op = "send_pack" /\ pc = "done" /\ result.kind = "return"
        /\ new_refs # EmptyMap /\ want = <<>>
        /\ "report-status" \in Range(negotiated_capabilities))
    => /\ gen_calls = 0
       /\ \A i \in DOMAIN out : out[i].k # "pack"
       /\ report_status_parser # None
       /\ \E i \in DOMAIN rcvd : rcvd[i] = Flush

\* C16: in a fetch with wants, what has been written is always: one want line
\* per wanted id in list order, capabilities on the first only; one flush; one
\* have line per id the walker yielded, in yield order; and, once the walk is
\* over, one done line, which is the last thing written.  Nothing of the pack
\* is read before done is written.
C16_FetchOrder ==
    (op = "fetch_pack" /\ wants # <<>>) =>
        LET n == Len(wants)
            h == Len(walked)
        IN  /\ Len(out) = n + 1 + h + (IF DoneWritten THEN 1 ELSE 0)
            /\ \A i \in 1..n :
                  /\ out[i].k = "want" /\ out[i].id = wants[i]
                  /\ out[i].caps =
                        IF i = 1 THEN Some(negotiated_capabilities) ELSE None
            /\ out[n + 1] = Flush
            /\ \A j \in 1..h : out[n + 1 + j] = [k |-> "have", id |-> walked[j]]
            /\ DoneWritten => out[Len(out)] = [k |-> "done"]
            /\ (pc \in {"read_done", "read_pack", "read_eof"}
                \/ result.kind = "return") => DoneWritten
            /\ PackPhase => DoneWritten

\* C16's case: a fetch of two ids that sent two haves and done, read the pack
\* and returned.
C16_Witness ==
    /\ op = "fetch_pack" /\ pc = "done" /\ result = Return(refs)
    /\ wants = <<"b2", "a1">> /\ walked = <<"a1", "b2">>
    /\ ReadOn(1)
    /\ Len(out) = 6

\* The ids of the ACK lines among the packets, in order.
RECURSIVE AckedIds(_)
AckedIds(pkts) ==
    IF pkts = <<>> THEN <<>>
    ELSE IF IsNeg(Head(pkts)) /\ Head(pkts).parts[1] = "ACK"
    THEN <<Head(pkts).parts[2]>> \o AckedIds(Tail(pkts))
    ELSE AckedIds(Tail(pkts))

Last(seq) == seq[Len(seq)]

\* C18: in a fetch, wherever it is read, an `ACK <id>` line without continue
\* raises nothing and, after done, ends the negotiation; a NAK line raises
\* nothing and calls graph_walker.ack for nothing; and when the walker yields
\* nothing at once, done follows the flush of the want lines directly.
C18_EdgeRules ==
    (op = "fetch_pack" /\ wants # <<>>) =>
        /\ (rcvd # <<>> /\ IsNeg(Last(rcvd)) /\ Len(Last(rcvd).parts) = 2)
           => /\ result.kind # "raise"
              /\ acked = AckedIds(rcvd)
              /\ DoneWritten => pc = "read_pack"
        /\ (rcvd # <<>> /\ Last(rcvd) = Nak)
           => /\ result.kind # "raise"
              /\ acked = AckedIds(rcvd)
        /\ (walked = <<>> /\ DoneWritten)
           => SubSeq(out, Len(wants) + 1, Len(out)) = <<Flush, [k |-> "done"]>>

\* The payloads, channel byte removed, of the packets read on one channel.
RECURSIVE ChannelPayloads(_, _)
ChannelPayloads(ch, pkts) ==
    IF pkts = <<>> THEN <<>>
    ELSE IF OnChannel(ch, Head(pkts))
    THEN <<Tail(Head(pkts).bytes)>> \o ChannelPayloads(ch, Tail(pkts))
    ELSE ChannelPayloads(ch, Tail(pkts))

\* C19: the pack sink and the progress sink have received the payloads of
\* channels 1 and 2, channel byte removed, in arrival order (nothing for
\* progress when no progress sink was given, and no error for it); and a
\* packet on channel 3, in fetch and in push, ends the call with a protocol
\* error and is the last packet read.
C19_SideBandDispatch ==
    /\ op = "fetch_pack" => pack_data = ChannelPayloads(1, rcvd)
    /\ op \in {"fetch_pack", "send_pack"}
       => progress_log = IF progress THEN ChannelPayloads(2, rcvd) ELSE <<>>
    /\ \A i \in DOMAIN rcvd :
          OnChannel(3, rcvd[i])
          => /\ i = Len(rcvd)
             /\ pc \in {"done", "fetch_done"}
             /\ result.kind = "raise"
             /\ result.err \in ProtocolErrors

\* C20: fetch() calls commit exactly once, when fetch_pack has ended and
\* however it ended, and then hands fetch_pack's return value or error to its
\* caller unchanged; before that commit has not been called, and a fetch with
\* nothing to want wrote nothing to the pack.
C20_FetchCommits ==
    /\ [](fetch_called =>
            /\ commits = IF pc = "fetch_done" THEN 1 ELSE 0
            /\ (pc = "fetch_done" /\ wants = <<>>) => pack_data = <<>>
            /\ pc = "fetch_done" => result.kind \in {"return", "raise"})
    /\ [][(fetch_called /\ pc = "done")
          => /\ pc' = "fetch_done"
             /\ commits' = commits + 1
             /\ result' = result]_vars

\* C20's case: fetch_pack raised for an invalid side-band channel inside
\* fetch(), commit ran once and the error is what the caller gets.
C20_Witness ==
    /\ fetch_called /\ pc = "fetch_done" /\ commits = 1
    /\ result = Raise("AssertionError", "Invalid sideband channel")
    /\ ReadOn(1)

====
